---- MODULE Spec2Model ----
(***************************************************************************)
(* MouseTracker of mouse-xcount.py (scalar total of horizontal movement)   *)
(* and of mousetester.py (timestamped cumulative path).  The two classes   *)
(* share __init__, start_tracking and stop_tracking word for word and      *)
(* differ in the body of _event_loop and in the query method; `variant`    *)
(* says which of the two programs a behaviour is a run of.                 *)
(*                                                                         *)
(* One controlling thread calls start_tracking / stop_tracking; every      *)
(* start_tracking that spawns creates one thread running _event_loop.      *)
(* The device is the evdev InputDevice opened once in __init__: all loop   *)
(* threads of a tracker share its file descriptor.                         *)
(***************************************************************************)
EXTENDS Integers, Sequences, FiniteSets

\* ---------------------------------------------------------------- bounds
\* The size of a behaviour: loop threads spawned plus events delivered.
MaxWork == 4

Threads == 1..MaxWork
None == 0

\* ------------------------------------------------------- evdev vocabulary
\* ecodes as the loop names them.  Codes are numbered per event type, so a
\* non-relative event can carry the code the loop compares with REL_X.
EV_REL == "EV_REL"
EV_KEY == "EV_KEY"
REL_X == "REL_X"
REL_Y == "REL_Y"
REL_WHEEL == "REL_WHEEL"

\* Device time is counted in events: the device stamps its k-th event with
\* time k (event.timestamp()).  time.monotonic() reads another clock, which
\* runs at the same rate from another origin: its reading is device time plus
\* a skew fixed for the run.
Skews == {-9, 0}

\* What read_loop() may yield, less the timestamp: motion on the horizontal
\* axis with either sign, motion on the vertical axis, a relative event on
\* another axis, and a non-relative event whose code equals REL_X's.
Motions ==
    [type : {EV_REL}, code : {REL_X}, value : {-2, 3}]
    \cup [type : {EV_REL}, code : {REL_Y}, value : {4}]
    \cup [type : {EV_REL}, code : {REL_WHEEL}, value : {1}]
    \cup [type : {EV_KEY}, code : {REL_X}, value : {1}]

\* The event the device stamps with time k.
Stamped(m, k) == [type |-> m.type, code |-> m.code, value |-> m.value, ts |-> k]

NoEvent == [type |-> "none", code |-> "none", value |-> 0, ts |-> 0]

VARIABLES
    variant,            \* "xcount" (mouse-xcount.py) or "path" (mousetester.py)
    skew,               \* time.monotonic() minus device time
    tracking_thread,    \* self._tracking_thread: None or a thread
    is_running,         \* self._is_running
    total_x_movement,   \* self._total_x_movement (xcount)
    path_data,          \* self.path_data (path): sequence of <<timestamp, x, y>>
    current_x,          \* self._current_x (path)
    current_y,          \* self._current_y (path)
    grabbed,            \* the device's EVIOCGRAB state for the tracker's fd:
                        \* None, or the thread whose grab() call took it
    pc,                 \* position of each loop thread in _event_loop
    event,              \* each loop thread's local `event`, while its body runs
    acc,                \* each loop thread's operand stack during `+=`
    ungrabs,            \* calls of self._device.ungrab() made by each thread
    ctl,                \* position of the controlling thread
    result,             \* outcome of the controlling thread's last completed call
    live,               \* whether self._is_running was set when read_loop()
                        \* yielded the event a loop thread holds
    lock,               \* self._lock: None, or who holds it
    qpc,                \* position of a thread calling the query method
    folded,             \* events that passed the `if not self._is_running` test,
                        \* in order, each with the thread that read it
    delivered           \* number of events read_loop() has yielded so far

vars == <<variant, skew, tracking_thread, is_running, total_x_movement, path_data,
          current_x, current_y, grabbed, pc, event, acc, ungrabs, ctl, result,
          live, lock, qpc, folded, delivered>>

tracker == <<tracking_thread, is_running>>
accumulated == <<total_x_movement, path_data, current_x, current_y>>
loops == <<pc, event, acc, ungrabs, folded, delivered>>
controller == <<ctl, result>>

\* ------------------------------------------------------------- __init__
Init ==
    /\ variant \in {"xcount", "path"}
    /\ skew \in (IF variant = "path" THEN Skews ELSE {0})
    /\ tracking_thread = None
    /\ is_running = FALSE
    /\ total_x_movement = 0
    /\ path_data = <<>>
    /\ current_x = 0
    /\ current_y = 0
    /\ grabbed = None
    /\ pc = [t \in Threads |-> "NotStarted"]
    /\ event = [t \in Threads |-> NoEvent]
    /\ acc = [t \in Threads |-> 0]
    /\ ungrabs = [t \in Threads |-> 0]
    /\ ctl = "idle"
    /\ result = "none"
    /\ live = [t \in Threads |-> FALSE]
    /\ lock = None
    /\ qpc = "idle"
    /\ folded = <<>>
    /\ delivered = 0

\* ---------------------------------------------------------- _event_loop
\* Positions of a loop thread:
\*   NotStarted  no Thread object yet
\*   grab        started, about to call self._device.grab()
\*   init        (path) grabbed, about to append the start-of-tracking point
\*   read        blocked in read_loop(), waiting for the next event
\*   check       holds an event, about to test self._is_running
\*   update      about to apply the event to the accumulated state
\*   store       (path) `+=` has loaded and added, about to store
\*   append      (path) about to append the point under the lock
\* and, where entering `with self._lock` is a step of its own, init_locked,
\* update_locked and append_locked: inside the with block, holding the lock
\*   finally     left the try block, about to call self._device.ungrab()
\*   Stopped     _event_loop has returned or raised; the thread is dead
\* Threads spawned so far, and the size of the behaviour so far.
Spawned == {t \in Threads : pc[t] # "NotStarted"}
Work == Cardinality(Spawned) + delivered

Running(t) == pc[t] \in {"init", "init_locked", "read", "check", "update",
                         "update_locked", "store", "append", "append_locked"}
Alive(t) == pc[t] \notin {"NotStarted", "Stopped"}

\* self._device.grab() succeeds: EVIOCGRAB is free for the tracker's fd.
GrabOk(t) ==
    /\ pc[t] = "grab"
    /\ grabbed = None
    /\ grabbed' = t
    /\ pc' = [pc EXCEPT ![t] = IF variant = "path" THEN "init" ELSE "read"]
    /\ UNCHANGED <<variant, skew, live, lock, qpc, tracker, accumulated, event, acc, ungrabs, folded,
                   delivered, controller>>

\* self._device.grab() raises: the grab is held already (by this fd: EBUSY on
\* a second grab; or by another process), the except clause logs it.
GrabFails(t) ==
    /\ pc[t] = "grab"
    /\ pc' = [pc EXCEPT ![t] = "finally"]
    /\ UNCHANGED <<variant, skew, live, lock, qpc, tracker, accumulated, grabbed, event, acc, ungrabs,
                   folded, delivered, controller>>

\* time.monotonic()
monotonic == delivered + skew

\* (path) start_time = time.monotonic(); append (start_time, x, y) under the lock.
AppendStart(t) ==
    /\ pc[t] = "init"
    /\ LET start_time == monotonic
       IN path_data' = Append(path_data, <<start_time, current_x, current_y>>)
    /\ pc' = [pc EXCEPT ![t] = "read"]
    /\ UNCHANGED <<variant, skew, live, lock, qpc, tracker, total_x_movement, current_x, current_y,
                   grabbed, event, acc, ungrabs, folded, delivered, controller>>

\* read_loop() yields the next event to this thread.
ReadEvent(t) ==
    /\ pc[t] = "read"
    /\ Work < MaxWork
    /\ \E m \in Motions : event' = [event EXCEPT ![t] = Stamped(m, delivered + 1)]
    /\ live' = [live EXCEPT ![t] = is_running]
    /\ delivered' = delivered + 1
    /\ pc' = [pc EXCEPT ![t] = "check"]
    /\ UNCHANGED <<variant, skew, lock, qpc, tracker, accumulated, grabbed, acc, ungrabs, folded,
                   controller>>

\* An except clause that resets what was accumulated.
ReadErrorDiscards(t) ==
    /\ pc[t] = "read"
    /\ pc' = [pc EXCEPT ![t] = "finally"]
    /\ total_x_movement' = 0
    /\ path_data' = <<>>
    /\ UNCHANGED <<variant, skew, live, lock, qpc, tracker, current_x, current_y, grabbed, event, acc,
                   ungrabs, folded, delivered, controller>>

\* read_loop() raises (I/O error, device unplugged): except Exception logs it.
ReadError(t) ==
    /\ pc[t] = "read"
    /\ pc' = [pc EXCEPT ![t] = "finally"]
    /\ UNCHANGED <<variant, skew, live, lock, qpc, tracker, accumulated, grabbed, event, acc, ungrabs,
                   folded, delivered, controller>>

\* The iterator is exhausted: the for statement ends normally.
ReadEnd(t) ==
    /\ pc[t] = "read"
    /\ pc' = [pc EXCEPT ![t] = "finally"]
    /\ UNCHANGED <<variant, skew, live, lock, qpc, tracker, accumulated, grabbed, event, acc, ungrabs,
                   folded, delivered, controller>>

\* if not self._is_running: break
CheckStop(t) ==
    /\ pc[t] = "check"
    /\ ~is_running
    /\ event' = [event EXCEPT ![t] = NoEvent]
    /\ live' = [live EXCEPT ![t] = FALSE]
    /\ pc' = [pc EXCEPT ![t] = "finally"]
    /\ UNCHANGED <<variant, skew, lock, qpc, tracker, accumulated, grabbed, acc, ungrabs,
                   folded, delivered, controller>>

\* The test of the event's type left out.
RelevantAnyType(e) ==
    IF variant = "xcount"
    THEN e.code = REL_X
    ELSE e.type = EV_REL

\* Where the body goes for an event that passed the test.
Relevant(e) ==
    IF variant = "xcount"
    THEN e.type = EV_REL /\ e.code = REL_X
    ELSE e.type = EV_REL

CheckGo(t) ==
    /\ pc[t] = "check"
    /\ is_running
    /\ folded' = Append(folded, [e |-> event[t], by |-> t])
    /\ event' = [event EXCEPT ![t] = IF Relevant(event[t]) THEN @ ELSE NoEvent]
    /\ live' = [live EXCEPT ![t] = FALSE]
    /\ pc' = [pc EXCEPT ![t] =
                IF ~Relevant(event[t]) THEN "read"
                ELSE IF variant = "path" /\ event[t].code \notin {REL_X, REL_Y}
                     THEN "append"
                     ELSE "update"]
    /\ UNCHANGED <<variant, skew, lock, qpc, tracker, accumulated, grabbed, acc, ungrabs, delivered, controller>>

\* (xcount) with self._lock: self._total_x_movement += event.value
AddTotal(total, e) == total + e.value

UpdateTotal(t) ==
    /\ variant = "xcount"
    /\ pc[t] = "update"
    /\ total_x_movement' = AddTotal(total_x_movement, event[t])
    /\ event' = [event EXCEPT ![t] = NoEvent]
    /\ pc' = [pc EXCEPT ![t] = "read"]
    /\ UNCHANGED <<variant, skew, live, lock, qpc, tracker, path_data, current_x, current_y, grabbed,
                   acc, ungrabs, folded, delivered, controller>>

\* (path) self._current_x += event.value / self._current_y += -event.value:
\* the attribute is loaded and the sum formed ...
AddX(x, e) == x + e.value
AddYNotInverted(y, e) == y + e.value
AddY(y, e) == y + (-e.value)

LoadCurrent(t) ==
    /\ variant = "path"
    /\ pc[t] = "update"
    /\ acc' = [acc EXCEPT ![t] = IF event[t].code = REL_X
                                 THEN AddX(current_x, event[t])
                                 ELSE AddY(current_y, event[t])]
    /\ pc' = [pc EXCEPT ![t] = "store"]
    /\ UNCHANGED <<variant, skew, live, lock, qpc, tracker, accumulated, grabbed, event, ungrabs, folded, delivered, controller>>

\* ... and stored back, outside the lock.
StoreCurrent(t) ==
    /\ pc[t] = "store"
    /\ IF event[t].code = REL_X
       THEN current_x' = acc[t] /\ UNCHANGED current_y
       ELSE current_y' = acc[t] /\ UNCHANGED current_x
    /\ acc' = [acc EXCEPT ![t] = 0]
    /\ pc' = [pc EXCEPT ![t] = "append"]
    /\ UNCHANGED <<variant, skew, live, lock, qpc, tracker, total_x_movement, path_data, grabbed, event,
                   ungrabs, folded, delivered, controller>>

\* (path) event_time = event.timestamp(); append (event_time, x, y) under the lock.
AppendPoint(t) ==
    /\ pc[t] = "append"
    /\ path_data' = Append(path_data, <<event[t].ts, current_x, current_y>>)
    /\ event' = [event EXCEPT ![t] = NoEvent]
    /\ pc' = [pc EXCEPT ![t] = "read"]
    /\ UNCHANGED <<variant, skew, live, lock, qpc, tracker, total_x_movement, current_x, current_y,
                   grabbed, acc, ungrabs, folded, delivered, controller>>

\* ungrab() at the end of the try block instead: skipped when the block is
\* left by an exception (a failed grab or read, with the stop flag still set).
FinallyOnlyOnBreak(t) ==
    /\ pc[t] = "finally"
    /\ IF is_running
       THEN UNCHANGED <<ungrabs, grabbed>>
       ELSE /\ ungrabs' = [ungrabs EXCEPT ![t] = @ + 1]
            /\ grabbed' = None
    /\ pc' = [pc EXCEPT ![t] = "Stopped"]
    /\ UNCHANGED <<variant, skew, live, lock, qpc, tracker, accumulated, event, acc, folded, delivered,
                   controller>>

\* finally: self._device.ungrab().  EVIOCGRAB is released when the tracker's fd
\* holds it (whichever thread took it); otherwise the call raises, and the
\* thread ends with that exception.
Finally(t) ==
    /\ pc[t] = "finally"
    /\ ungrabs' = [ungrabs EXCEPT ![t] = @ + 1]
    /\ grabbed' = None
    /\ pc' = [pc EXCEPT ![t] = "Stopped"]
    /\ UNCHANGED <<variant, skew, live, lock, qpc, tracker, accumulated, event, acc, folded, delivered,
                   controller>>

\* The steps the two programs' loops share, and each program's loop.
LoopCommon(t) ==
    \/ GrabOk(t)
    \/ GrabFails(t)
    \/ ReadEvent(t)
    \/ ReadError(t)
    \/ ReadEnd(t)
    \/ CheckStop(t)
    \/ CheckGo(t)
    \/ Finally(t)

LoopXCount(t) == UpdateTotal(t)

LoopPath(t) ==
    \/ AppendStart(t)
    \/ LoadCurrent(t)
    \/ StoreCurrent(t)
    \/ AppendPoint(t)

_event_loop(t) == LoopCommon(t) \/ LoopXCount(t) \/ LoopPath(t)

\* -------------------------------------------- start_tracking / stop_tracking
\* Positions of the controlling thread:
\*   idle   between calls (a call that does not block runs as one step)
\*   join   inside self._tracking_thread.join(timeout=1.0)
\* result is what the last completed call did:
\*   "already"  start_tracking printed "Tracking is already in progress."
\*   "started"  start_tracking started a thread
\*   "noop"     stop_tracking did nothing
\*   "stopped"  stop_tracking printed "Tracking stopped."

\* The thread a spawning start_tracking() creates.
NewThread == CHOOSE t \in Threads :
                 /\ pc[t] = "NotStarted"
                 /\ \A u \in Threads : u < t => pc[u] # "NotStarted"

\* if self._tracking_thread is not None: print(...); return
StartAlready ==
    /\ ctl = "idle"
    /\ tracking_thread # None
    /\ ctl' = "idle"
    /\ result' = "already"
    /\ UNCHANGED <<variant, skew, live, lock, qpc, tracker, accumulated, grabbed, loops>>

\* A start that begins each session with an empty log at the origin.
StartSpawnResets ==
    /\ ctl = "idle"
    /\ tracking_thread = None
    /\ Work < MaxWork
    /\ is_running' = TRUE
    /\ tracking_thread' = NewThread
    /\ pc' = [pc EXCEPT ![NewThread] = "grab"]
    /\ path_data' = <<>>
    /\ current_x' = 0
    /\ current_y' = 0
    /\ ctl' = "idle"
    /\ result' = "started"
    /\ UNCHANGED <<variant, skew, live, lock, qpc, total_x_movement, grabbed, event, acc,
                   ungrabs, folded, delivered>>

\* self._is_running = True; self._tracking_thread = Thread(...); .start()
StartSpawn ==
    /\ ctl = "idle"
    /\ tracking_thread = None
    /\ Work < MaxWork
    /\ is_running' = TRUE
    /\ tracking_thread' = NewThread
    /\ pc' = [pc EXCEPT ![NewThread] = "grab"]
    /\ ctl' = "idle"
    /\ result' = "started"
    /\ UNCHANGED <<variant, skew, live, lock, qpc, accumulated, grabbed, event, acc, ungrabs, folded, delivered>>

start_tracking == StartAlready \/ StartSpawn

\* The body without its guard: the flag is cleared, and join() on None raises.
StopUnguarded ==
    /\ ctl = "idle"
    /\ ~(tracking_thread # None /\ is_running)
    /\ is_running' = FALSE
    /\ ctl' = "idle"
    /\ result' = "AttributeError"
    /\ UNCHANGED <<variant, skew, live, lock, qpc, tracking_thread, accumulated, grabbed, loops>>

\* if self._tracking_thread and self._is_running: (false)
StopNoop ==
    /\ ctl = "idle"
    /\ ~(tracking_thread # None /\ is_running)
    /\ ctl' = "idle"
    /\ result' = "noop"
    /\ UNCHANGED <<variant, skew, live, lock, qpc, tracker, accumulated, grabbed, loops>>

\* (true) self._is_running = False, then join(timeout=1.0) begins.
StopSignal ==
    /\ ctl = "idle"
    /\ tracking_thread # None /\ is_running
    /\ is_running' = FALSE
    /\ ctl' = "join"
    /\ UNCHANGED <<variant, skew, live, lock, qpc, tracking_thread, accumulated, grabbed, loops, result>>

\* What follows join(), however it returned:
\* self._tracking_thread = None; print("Tracking stopped.")
AfterJoin ==
    /\ tracking_thread' = None
    /\ ctl' = "idle"
    /\ result' = "stopped"
    /\ UNCHANGED <<variant, skew, live, lock, qpc, is_running, accumulated, grabbed, loops>>

\* join() returns because the thread has ended.
JoinReturn ==
    /\ ctl = "join"
    /\ pc[tracking_thread] = "Stopped"
    /\ AfterJoin

\* join() returns because 1.0 s have passed with the thread still alive.
JoinTimeout ==
    /\ ctl = "join"
    /\ pc[tracking_thread] # "Stopped"
    /\ AfterJoin

stop_tracking == StopNoop \/ StopSignal \/ JoinReturn \/ JoinTimeout

\* ------------------------------------------------------------- queries
\* with self._lock: return self._total_x_movement
get_total_x_movement == total_x_movement

\* with self._lock: return list(self.path_data)
get_path == path_data

\* ------------------------------------------------------- specification
Lifecycle == start_tracking \/ stop_tracking

Next ==
    \/ Lifecycle
    \/ \E t \in Threads : _event_loop(t)

Spec == Init /\ [][Next]_vars

\* The runs of mouse-xcount.py alone.
InitXCount == Init /\ variant = "xcount"
NextXCount ==
    \/ Lifecycle
    \/ \E t \in Threads : LoopCommon(t) \/ LoopXCount(t)

SpecXCount == InitXCount /\ [][NextXCount]_vars

\* The runs of mousetester.py alone.
InitPath == Init /\ variant = "path"
NextPath ==
    \/ Lifecycle
    \/ \E t \in Threads : LoopCommon(t) \/ LoopPath(t)

SpecPath == InitPath /\ [][NextPath]_vars

\* The runs in which the device is never silent for the 1.0 s of a join: every
\* join() returns because its thread has ended.
NextPrompt ==
    \/ start_tracking
    \/ StopNoop \/ StopSignal \/ JoinReturn
    \/ \E t \in Threads : _event_loop(t)

SpecPrompt == Init /\ [][NextPrompt]_vars

\* ------------------------------------------------- the lock made explicit
\* Above, a `with self._lock:` block is one step.  Here entering the block
\* (acquiring self._lock, which waits while another thread holds it) and its
\* body followed by the release are two steps, and the query methods are
\* called by a thread of their own, at any time.

\* The thread that calls get_total_x_movement() / get_path().
Caller == MaxWork + 1

\* (xcount) with self._lock: entered
AcquireForTotal(t) ==
    /\ variant = "xcount"
    /\ pc[t] = "update"
    /\ lock = None
    /\ lock' = t
    /\ pc' = [pc EXCEPT ![t] = "update_locked"]
    /\ UNCHANGED <<variant, skew, live, qpc, tracker, accumulated, grabbed, event, acc,
                   ungrabs, folded, delivered, controller>>

\* (xcount) self._total_x_movement += event.value, and the block is left
UpdateTotalLocked(t) ==
    /\ pc[t] = "update_locked"
    /\ total_x_movement' = AddTotal(total_x_movement, event[t])
    /\ event' = [event EXCEPT ![t] = NoEvent]
    /\ lock' = None
    /\ pc' = [pc EXCEPT ![t] = "read"]
    /\ UNCHANGED <<variant, skew, live, qpc, tracker, path_data, current_x, current_y,
                   grabbed, acc, ungrabs, folded, delivered, controller>>

\* (path) start_time = time.monotonic(); with self._lock: entered
AcquireForStart(t) ==
    /\ pc[t] = "init"
    /\ lock = None
    /\ lock' = t
    /\ acc' = [acc EXCEPT ![t] = monotonic]
    /\ pc' = [pc EXCEPT ![t] = "init_locked"]
    /\ UNCHANGED <<variant, skew, live, qpc, tracker, accumulated, grabbed, event, ungrabs,
                   folded, delivered, controller>>

\* (path) self.path_data.append((start_time, x, y)), and the block is left
AppendStartLocked(t) ==
    /\ pc[t] = "init_locked"
    /\ LET start_time == acc[t]
       IN path_data' = Append(path_data, <<start_time, current_x, current_y>>)
    /\ acc' = [acc EXCEPT ![t] = 0]
    /\ lock' = None
    /\ pc' = [pc EXCEPT ![t] = "read"]
    /\ UNCHANGED <<variant, skew, live, qpc, tracker, total_x_movement, current_x, current_y,
                   grabbed, event, ungrabs, folded, delivered, controller>>

\* (path) event_time = event.timestamp(); with self._lock: entered
AcquireForPoint(t) ==
    /\ pc[t] = "append"
    /\ lock = None
    /\ lock' = t
    /\ pc' = [pc EXCEPT ![t] = "append_locked"]
    /\ UNCHANGED <<variant, skew, live, qpc, tracker, accumulated, grabbed, event, acc,
                   ungrabs, folded, delivered, controller>>

\* The lock taken by hand and not given back: the loop goes on to its next
\* read holding it.
AppendPointKeepsLock(t) ==
    /\ pc[t] = "append_locked"
    /\ path_data' = Append(path_data, <<event[t].ts, current_x, current_y>>)
    /\ event' = [event EXCEPT ![t] = NoEvent]
    /\ pc' = [pc EXCEPT ![t] = "read"]
    /\ UNCHANGED <<variant, skew, live, lock, qpc, tracker, total_x_movement, current_x,
                   current_y, grabbed, acc, ungrabs, folded, delivered, controller>>

\* (path) self.path_data.append((event_time, x, y)), and the block is left
AppendPointLocked(t) ==
    /\ pc[t] = "append_locked"
    /\ path_data' = Append(path_data, <<event[t].ts, current_x, current_y>>)
    /\ event' = [event EXCEPT ![t] = NoEvent]
    /\ lock' = None
    /\ pc' = [pc EXCEPT ![t] = "read"]
    /\ UNCHANGED <<variant, skew, live, qpc, tracker, total_x_movement, current_x, current_y,
                   grabbed, acc, ungrabs, folded, delivered, controller>>

\* Positions of the calling thread: idle (not inside a with block: between
\* calls, or called and waiting for the lock), locked (inside the block).
\* The call is made and `with self._lock` entered: possible when the lock is
\* free, the call waits otherwise.
QueryAcquire ==
    /\ qpc = "idle"
    /\ lock = None
    /\ lock' = Caller
    /\ qpc' = "locked"
    /\ UNCHANGED <<variant, skew, live, tracker, accumulated, grabbed, loops, controller>>

\* return self._total_x_movement / return list(self.path_data): the value is
\* get_total_x_movement / get_path of this state, and the block is left.
QueryReturn ==
    /\ qpc = "locked"
    /\ lock' = None
    /\ qpc' = "idle"
    /\ UNCHANGED <<variant, skew, live, tracker, accumulated, grabbed, loops, controller>>

Query == QueryAcquire \/ QueryReturn

LoopXCountLocked(t) == AcquireForTotal(t) \/ UpdateTotalLocked(t)

LoopPathLocked(t) ==
    \/ AcquireForStart(t)
    \/ AppendStartLocked(t)
    \/ LoadCurrent(t)
    \/ StoreCurrent(t)
    \/ AcquireForPoint(t)
    \/ AppendPointLocked(t)

NextLock ==
    \/ Lifecycle
    \/ Query
    \/ \E t \in Threads : LoopCommon(t) \/ LoopXCountLocked(t) \/ LoopPathLocked(t)

SpecLock == Init /\ [][NextLock]_vars

\* ====================================================================
\* Properties
\* ====================================================================
\* The events in a log, and those among them read by thread t.
EventsOf(log) == [i \in 1..Len(log) |-> log[i].e]
ReadBy(log, t) == SelectSeq(log, LAMBDA r : r.by = t)
IsRel(e) == e.type = EV_REL
IsHorizontal(e) == e.type = EV_REL /\ e.code = REL_X
IsVertical(e) == e.type = EV_REL /\ e.code = REL_Y

\* Arithmetic sum of the values of the horizontal (vertical) events of es.
RECURSIVE SumH(_)
SumH(es) ==
    IF es = <<>> THEN 0
    ELSE (IF IsHorizontal(Head(es)) THEN Head(es).value ELSE 0) + SumH(Tail(es))

RECURSIVE SumV(_)
SumV(es) ==
    IF es = <<>> THEN 0
    ELSE (IF IsVertical(Head(es)) THEN Head(es).value ELSE 0) + SumV(Tail(es))

NoneAlive == \A t \in Threads : ~Alive(t)

\* C1: when stop_tracking() has returned (it is the controlling thread's last
\* completed call and printed "Tracking stopped."), no loop thread is alive
\* and the device is not grabbed.
C1_StopReturnsAfterLoopEnded ==
    (ctl = "idle" /\ result = "stopped") => (NoneAlive /\ grabbed = None)

\* C2: at most one loop thread is Running at any time, and a start_tracking()
\* call made while a loop is Running spawns no thread and changes no state.
C2_AtMostOneLoop ==
    /\ [](Cardinality({t \in Threads : Running(t)}) <= 1)
    /\ [][((\E t \in Threads : Running(t)) /\ start_tracking)
            => UNCHANGED <<pc, tracker, accumulated, grabbed>>]_vars

\* C3: each run of the loop calls ungrab exactly once, on whichever path it
\* leaves the try block, and not before it has left it (so never while it is
\* still reading); a loop that has reached Stopped holds no grab.
C3_UngrabOncePerRun ==
    \A t \in Threads :
        /\ pc[t] = "Stopped" => (ungrabs[t] = 1 /\ grabbed # t)
        /\ pc[t] # "Stopped" => ungrabs[t] = 0

\* A loop that grabbed, read events and then left on a failed read (the stop
\* flag is still set to run) has ended and released the device.
C3_Witness ==
    /\ pc[1] = "Stopped"
    /\ tracking_thread = 1 /\ is_running
    /\ delivered > 0
    /\ ungrabs[1] = 1
    /\ grabbed = None

\* C4 (xcount): whenever no loop is in the middle of applying an event,
\* get_total_x_movement() is the arithmetic sum of the values of the
\* horizontal events the loops have processed; vertical events and
\* non-relative events contribute nothing.
C4_TotalIsSumOfHorizontal ==
    (variant = "xcount" /\ \A t \in Threads : pc[t] # "update")
        => get_total_x_movement = SumH(EventsOf(folded))

\* One session has processed +3, -2 and an event that is not horizontal.
C4_Witness ==
    /\ variant = "xcount"
    /\ Spawned = {1}
    /\ pc[1] = "read"
    /\ Len(folded) = 3
    /\ \E i \in 1..3 : ~IsHorizontal(folded[i].e)
    /\ get_total_x_movement = 1

\* C5 (path): in the tracker's first session (which starts from (0,0)) the
\* path starts at (0,0), and the point appended for the i-th relative event
\* is its predecessor moved by the event's value on x for a horizontal
\* event, by minus the event's value on y for a vertical event, the other
\* axis unchanged; hence every point is (sum of horizontal values, minus sum
\* of vertical values) of the events before it, and once the loop has
\* applied all it read, the last point is that of the whole sequence.
RelEvents == SelectSeq(EventsOf(folded), IsRel)
FirstSession == Spawned \subseteq {1}

C5_PathIsCumulative ==
    (variant = "path" /\ FirstSession) =>
        /\ Len(path_data) <= Len(RelEvents) + 1
        /\ Len(path_data) > 0 => (path_data[1][2] = 0 /\ path_data[1][3] = 0)
        /\ \A i \in 2..Len(path_data) :
             LET e == RelEvents[i - 1]
                 p == path_data[i - 1]
                 q == path_data[i]
             IN /\ IsHorizontal(e) => (q[2] = p[2] + e.value /\ q[3] = p[3])
                /\ IsVertical(e) => (q[3] = p[3] - e.value /\ q[2] = p[2])
                /\ q[2] = SumH(SubSeq(RelEvents, 1, i - 1))
                /\ q[3] = 0 - SumV(SubSeq(RelEvents, 1, i - 1))
        /\ (pc[1] \in {"read", "finally", "Stopped"} /\ Len(path_data) > 0)
             => Len(path_data) = Len(RelEvents) + 1

\* (Horizontal, +3), (Vertical, +4) from (0,0) gave (0,0), (3,0), (3,-4).
C5_Witness ==
    /\ variant = "path"
    /\ FirstSession
    /\ pc[1] = "read"
    /\ Len(path_data) = 3
    /\ <<path_data[1][2], path_data[1][3]>> = <<0, 0>>
    /\ <<path_data[2][2], path_data[2][3]>> = <<3, 0>>
    /\ <<path_data[3][2], path_data[3][3]>> = <<3, -4>>

\* C6: after stop, start, stop (two sessions, each ended by stop_tracking()
\* with its loop terminated), what is read reflects the second session only:
\* the total is the sum of the second session's horizontal events; the path
\* holds the second session's points alone, from a start point at (0,0).
\* (Checked on the runs in which no join times out, where the first loop has
\* ended before the second starts.)
TwoSessionsDone ==
    /\ Spawned = {1, 2}
    /\ pc[1] = "Stopped" /\ pc[2] = "Stopped"
    /\ ctl = "idle" /\ result = "stopped"

C6_SessionsAreIsolated ==
    TwoSessionsDone =>
        LET second == EventsOf(ReadBy(folded, 2))
        IN /\ variant = "xcount" => get_total_x_movement = SumH(second)
           /\ variant = "path" =>
                /\ Len(get_path) <= Len(SelectSeq(second, IsRel)) + 1
                /\ Len(get_path) > 0 =>
                     (get_path[1][2] = 0 /\ get_path[1][3] = 0)

\* C7: a stop_tracking() whose join() returns with the loop still alive
\* reports ShutdownTimeout, not "Tracking stopped.".
C7_TimeoutIsReported ==
    [][(ctl = "join" /\ ctl' = "idle" /\ pc[tracking_thread] # "Stopped")
         => result' = "ShutdownTimeout"]_vars

\* C8: stop_tracking() called with no tracking thread (never started, or
\* stopped) raises nothing and changes neither the running flag, the thread
\* reference, the accumulated total/path, the device grab nor any loop.
C8_IdleStopIsNoop ==
    [][(tracking_thread = None /\ ctl = "idle" /\ stop_tracking)
         => (result' = "noop" /\ ctl' = "idle"
             /\ UNCHANGED <<tracker, accumulated, grabbed, loops>>)]_vars

\* stop_tracking() was called again after a session that accumulated state.
C8_Witness ==
    /\ result = "noop"
    /\ tracking_thread = None
    /\ pc[1] = "Stopped"
    /\ \E i \in 1..Len(folded) : IsHorizontal(folded[i].e)

\* C9: a start_tracking() call made when no loop thread is alive starts one
\* and leaves the tracker tracking.
C9_StartSpawnsWhenNoLoop ==
    [][(NoneAlive /\ start_tracking)
         => (result' = "started" /\ tracking_thread' # None
             /\ is_running' /\ \E t \in Threads : Alive(t)')]_vars

\* C10: a loop whose read fails or ends leaves the try block, calls ungrab
\* and ends, and neither step touches the accumulated state: the queries
\* return afterwards what they returned before the failure.
C10_FailurePreservesState ==
    [][\A t \in Threads :
         /\ (pc[t] = "read" /\ pc'[t] \notin {"read", "check"})
              => (pc'[t] = "finally" /\ UNCHANGED accumulated
                  /\ get_total_x_movement' = get_total_x_movement
                  /\ get_path' = get_path)
         /\ (pc[t] = "finally" /\ pc'[t] # "finally")
              => (pc'[t] = "Stopped" /\ UNCHANGED accumulated)]_vars

\* A loop has ended on a failed read (nobody asked it to stop) after it had
\* accumulated movement, and the movement is still there.
C10_Witness ==
    /\ pc[1] = "Stopped"
    /\ tracking_thread = 1 /\ is_running
    /\ Spawned = {1}
    /\ Len(folded) = 2
    /\ IF variant = "xcount"
       THEN get_total_x_movement = SumH(EventsOf(folded)) /\ get_total_x_movement # 0
       ELSE Len(get_path) = 3 /\ get_path[3][2] # 0

\* C11: when self._device.grab() raises at the start of a session, the caller
\* of the start_tracking() that began the session is told (its outcome is
\* GrabFailed, not a successful start), and the loop reads and folds nothing:
\* the step leaves the total, the position and the path as they were (no
\* start-of-tracking point), the loop goes straight to its finally clause.
C11_GrabFailureReported ==
    [][\A t \in Threads :
         (pc[t] = "grab" /\ pc'[t] # "grab" /\ grabbed' # t)
            => /\ pc'[t] = "finally"
               /\ UNCHANGED <<accumulated, folded, delivered>>
               /\ (tracking_thread = t /\ ctl = "idle" /\ result = "started")
                    => result' = "GrabFailed"]_vars

\* C12: a query made at any time, concurrently with the loops, returns a
\* consistent snapshot.  The path returned is the log between two whole
\* event updates: each point after the first either repeats the position of
\* its predecessor (a start-of-tracking point, an event on another axis) or
\* is its predecessor moved by the one event that stamped it; no point shows
\* an event's update applied in part.  And every write of the total and of
\* the log is made by the thread that holds self._lock, inside a with block
\* it then leaves, every read by the caller holding it.
DeltaX(e) == IF IsHorizontal(e) THEN e.value ELSE 0
DeltaY(e) == IF IsVertical(e) THEN 0 - e.value ELSE 0

PointsAreWhole(path) ==
    \A i \in 2..Len(path) :
        LET p == path[i - 1]
            q == path[i]
        IN \/ (q[2] = p[2] /\ q[3] = p[3])
           \/ \E j \in 1..Len(folded) :
                LET e == folded[j].e
                IN /\ IsRel(e) /\ e.ts = q[1]
                   /\ q[2] = p[2] + DeltaX(e)
                   /\ q[3] = p[3] + DeltaY(e)

WritesUnderLock ==
    (total_x_movement' # total_x_movement \/ path_data' # path_data)
        => (lock \in Threads /\ lock' = None
            /\ pc[lock] \in {"init_locked", "update_locked", "append_locked"})

ReadsUnderLock == (qpc = "locked" /\ qpc' = "idle") => lock = Caller

C12_SnapshotsAreConsistent ==
    /\ [](qpc = "locked" => PointsAreWhole(get_path))
    /\ [][WritesUnderLock /\ ReadsUnderLock]_vars

\* C13: in every reachable state the timestamps of the path log never
\* decrease from one point to the next, start-of-tracking points (stamped
\* with time.monotonic()) and event points (stamped with the event's device
\* timestamp) alike.  The device's own timestamps never decrease here: its
\* k-th event is stamped k.
C13_PathTimestampsNonDecreasing ==
    \A i \in 2..Len(get_path) : get_path[i - 1][1] <= get_path[i][1]

\* C14: under any sequence of start/stop operations the events are folded
\* one by one in the order of delivery, none lost, none twice.  No loss: a
\* relative event that read_loop() yielded while the running flag was set
\* passes the loop's test and is folded.  One-to-one and in order (path): once
\* no loop is in the middle of an update, the event points of the log (those
\* not stamped by time.monotonic(), told apart where the two clocks differ)
\* carry the timestamps of the folded relative events, in the same order.
MidUpdate(t) ==
    pc[t] \in {"update", "update_locked", "store", "append", "append_locked"}
IsEventPoint(q) == q[1] >= 1
Timestamps(points) == [i \in 1..Len(points) |-> points[i][1]]
TimestampsOf(es) == [i \in 1..Len(es) |-> es[i].ts]

C14_FoldedInDeliveryOrder ==
    /\ [][\A t \in Threads :
            (pc[t] = "check" /\ live[t] /\ IsRel(event[t]) /\ pc'[t] # "check")
               => folded' = Append(folded, [e |-> event[t], by |-> t])]_vars
    /\ []((variant = "path" /\ skew < 0 /\ \A t \in Threads : ~MidUpdate(t))
            => Timestamps(SelectSeq(get_path, IsEventPoint)) = TimestampsOf(RelEvents))

\* C15: a loop for which stop_tracking() has cleared the running flag (the
\* call is in its join, or has returned and dropped the thread reference)
\* leaves at the next event or read error it gets: the event it holds is not
\* folded, the accumulated state stays as it is, the loop goes to its finally
\* clause and from there ungrabs and ends.  While it is blocked in the read
\* only an event or a read error moves it: no step of the controlling
\* thread does.
Signalled(t) ==
    /\ pc[t] # "NotStarted"
    /\ tracking_thread # t \/ ctl = "join"

C15_StopIsCooperative ==
    [][\A t \in Threads : Signalled(t) =>
         /\ (pc[t] = "check" /\ pc'[t] # "check")
              => (pc'[t] = "finally" /\ folded' = folded /\ UNCHANGED accumulated)
         /\ (pc[t] = "read" /\ pc'[t] # "read")
              => \/ pc'[t] = "check" /\ delivered' = delivered + 1
                 \/ pc'[t] = "finally" /\ UNCHANGED <<accumulated, folded>>
         /\ (pc[t] = "finally" /\ pc'[t] # "finally")
              => (pc'[t] = "Stopped" /\ ungrabs'[t] = ungrabs[t] + 1)]_vars

\* C16: the accumulated state changes only while the tracker is tracking.
\* While it is not (no tracking thread: before the first start_tracking(),
\* and from the return of a stop_tracking() to the next start_tracking()),
\* no step of any thread changes what get_total_x_movement() and get_path()
\* return.
C16_FrozenWhileStopped ==
    [][(tracking_thread = None /\ ctl = "idle" /\ tracking_thread' = None)
         => (get_total_x_movement' = get_total_x_movement
             /\ get_path' = get_path)]_vars

\* C17: nothing can block the controlling or the calling thread for ever.
\* Only a thread inside a with block holds self._lock, so a loop blocked in
\* the device read (or anywhere else outside its with blocks) never does; a
\* holder can always take the one step that leaves its block, so that a query
\* waiting for the lock gets it and, once inside, returns; and a
\* stop_tracking() inside join() can always return, whatever the device and
\* the loop do.
InWithBlock(t) == pc[t] \in {"init_locked", "update_locked", "append_locked"}

C17_NothingBlocksForever ==
    /\ \A t \in Threads : lock = t <=> InWithBlock(t)
    /\ lock \in Threads =>
         ENABLED (UpdateTotalLocked(lock) \/ AppendStartLocked(lock)
                    \/ AppendPointLocked(lock))
    /\ lock = Caller <=> qpc = "locked"
    /\ qpc = "locked" => ENABLED QueryReturn
    /\ ctl = "join" => ENABLED (JoinReturn \/ JoinTimeout)

\* A query is inside its with block while stop_tracking() waits in join() for
\* a loop that has folded an event and is blocked in the read again.
C17_Witness ==
    /\ ctl = "join"
    /\ pc[tracking_thread] = "read"
    /\ qpc = "locked" /\ lock = Caller
    /\ \E i \in 1..Len(folded) : folded[i].by = tracking_thread /\ Relevant(folded[i].e)

\* C18 (path): the log is append-only.  No step of any thread (start, stop,
\* event processing, error exit, query) removes or rewrites an entry: what
\* get_path() returns before a step is a prefix of what it returns after it,
\* hence every snapshot is a prefix of every later one.
IsPrefix(a, b) == Len(a) <= Len(b) /\ SubSeq(b, 1, Len(a)) = a

C18_PathIsAppendOnly == [][IsPrefix(get_path, get_path')]_vars

\* Two sessions, the first one over, have left two start points and two
\* event points in the log, the first session's before the second's.
C18_Witness ==
    /\ variant = "path"
    /\ Spawned = {1, 2}
    /\ pc[1] = "Stopped"
    /\ Len(get_path) = 4
    /\ Len(ReadBy(folded, 1)) = 1 /\ Len(ReadBy(folded, 2)) = 1
    /\ get_path[2][1] = 1 /\ get_path[4][1] = 2

====
